---- MODULE Spec2Model ----
(***************************************************************************)
(* State-machine model of sap.f.DynamicPage (DynamicPage.js): the header   *)
(* snap / expand / pin controller, its two scroll sources and its deferred *)
(* (zero-delay) callbacks.                                                 *)
(*                                                                         *)
(* The control's fields are the variables.  Every private method of the    *)
(* control is an operator from a controller record to a controller record, *)
(* written statement by statement after the method; every event handler or *)
(* public setter is one action that applies such an operator.              *)
(***************************************************************************)
EXTENDS Integers, Sequences, FiniteSets, TLC

(***************************************************************************)
(* Bounds of the model.                                                    *)
(***************************************************************************)
\* height of the title, when a title exists
TitleHeight == 1
\* heights of the header (0..MaxHeaderHeight when a header exists)
MaxHeaderHeight == 1
\* heights of the control itself (1..MaxOwnHeight)
MaxOwnHeight == 2
\* visible height of the content wrapper, in whole pixels
ViewportHeight == 1
\* how far the content can overflow the wrapper (0..MaxScrollable)
MaxScrollable == 3
\* when the heights are measured: header heights 0..MaxMeasuredHeaderHeight,
\* control heights 1..MaxMeasuredOwnHeight, and a wrapper whose bounding
\* rectangle is up to MaxViewportQuarters quarter pixels taller than
\* ViewportHeight
MaxMeasuredHeaderHeight == 2
MaxMeasuredOwnHeight == 5
MaxViewportQuarters == 1
\* footer callbacks that may be pending at once
MaxFooterTimers == 4
\* number of zero-delay callbacks that may be pending at once
MaxTimers == 2
\* the dispatches and the writes of a chain of scroll events are counted up to
\* MaxChain
MaxChain == 3

(***************************************************************************)
(* Program constants.                                                      *)
(***************************************************************************)
\* DynamicPage.HEADER_MAX_ALLOWED_PINNED_PERCENTAGE = 0.6, in tenths
HEADER_MAX_ALLOWED_PINNED_PERCENTAGE == 6
\* DynamicPage.HEADER_MAX_ALLOWED_NON_SROLLABLE_PERCENTAGE = 0.6, in tenths
HEADER_MAX_ALLOWED_NON_SROLLABLE_PERCENTAGE == 6

\* DynamicPage.BREAK_POINTS
BREAK_POINTS == [TABLET |-> 1024, PHONE |-> 600]

\* DynamicPage.MEDIA
MEDIA ==
    [INVISIBLE |-> "sapUiHidden", PHONE |-> "sapFDynamicPage-Std-Phone",
     TABLET |-> "sapFDynamicPage-Std-Tablet", DESKTOP |-> "sapFDynamicPage-Std-Desktop"]

\* DynamicPage.RESIZE_HANDLER_ID: the names of the three fields
RESIZE_HANDLER_ID ==
    {"_sResizeHandlerId", "_sTitleResizeHandlerId", "_sContentResizeHandlerId"}

VARIABLES
    \* ---- device and aggregations (fixed for the lifetime of an instance)
    desktop,                \* Device.system.desktop
    phone,                  \* Device.system.phone
    hasTitle,               \* exists(this.getTitle())
    hasHeader,              \* exists(this.getHeader())
    hasExpandedContent,     \* exists(oDynamicPageTitle.getExpandedContent())
    hasSnappedContent,      \* exists(oDynamicPageTitle.getSnappedContent())
    hasFooter,              \* exists(this.getFooter())
    bUseAnimations,         \* sap.ui.getCore().getConfiguration().getAnimation()
    \* ---- geometry reported by the DOM
    titleHeight,            \* oDynamicPageTitle.$().outerHeight()
    headerHeight,           \* oDynamicPageHeader.$().outerHeight()
    ownHeight,              \* this.$().outerHeight()
    ownWidth,               \* this.$().outerWidth()
    scrollHeight,           \* this.$wrapper[0].scrollHeight
    clientHeight4,          \* this.$wrapper[0].getBoundingClientRect().height, in quarter pixels
    \* ---- properties
    headerAlwaysExpanded,
    headerExpanded,
    showFooter,
    \* ---- private fields
    bPinned,
    bHeaderInTitleArea,
    bExpandingWithAClick,
    headerBiggerThanAllowedHeight,
    bAlreadyAttachedPinPressHandler,
    rendered,               \* this.$wrapper / this.$titleArea are cached
    allowInnerDiv,
    allowCustomScroll,
    \* ---- visual state
    titleSnapped,           \* class sapFDynamicPageTitleSnapped on $titleArea
    headerHidden,           \* class sapFDynamicPageHeaderHidden on the header
    showExpandContent,      \* title's expanded content shown
    showSnapContent,        \* title's snapped content shown
    showPinBtn,             \* header's pin button shown
    footerShowClass,        \* class sapFDynamicPageActualFooterControlShow on the footer
    footerHideClass,        \* class sapFDynamicPageActualFooterControlHide on the footer
    footerSpacer,           \* class sapFDynamicPageContentWrapperSpacer on the spacer:
                            \* "on", "off", or "rendered" (as the renderer wrote it)
    footerWrapperHidden,    \* class sapUiHidden on $footerWrapper: "on", "off" or "rendered"
    media,                  \* the DynamicPage.MEDIA classes enabled on the control
    \* ---- scroll sources
    wrapperScrollTop,       \* this.$wrapper.scrollTop()
    scrollBarPosition,      \* this._getScrollBar().getScrollPosition()
    wrapperScrollPending,   \* a scroll event of the wrapper awaits dispatch
    scrollBarScrollPending, \* a scroll event of the ScrollBar awaits dispatch
    \* ---- deferred callbacks and log
    timers,                 \* jQuery.sap.delayedCall(0, ...) callbacks, FIFO
    footerTimers,           \* jQuery.sap.delayedCall(FOOTER_ANIMATION_DURATION, ...), FIFO
    \* ---- resize handlers
    resizeHandlerIds,       \* this[sHandler] for the three RESIZE_HANDLER_ID names
    registered,             \* ResizeHandler: registrations outstanding for each of them
    destroyed,              \* exit has run
    log,                    \* warning logged by the last handler, or "none"
    \* ---- history
    op,                     \* the operation that produced the current state
    snapRequested,          \* a command scrolled to the snap point and its scroll events are due
    chain,                  \* the scroll events dispatched, and the scroll positions their
                            \* handlers wrote, since the last other operation
    \* ---- what a specification records
    probe                   \* the outputs and operation names that are recorded

config == <<desktop, phone, hasTitle, hasHeader, hasExpandedContent, hasSnappedContent,
            hasFooter, bUseAnimations, titleHeight, headerHeight, clientHeight4, probe>>

geometry == <<ownHeight, ownWidth, scrollHeight>>

control == <<headerAlwaysExpanded, headerExpanded, bPinned, bHeaderInTitleArea,
             bExpandingWithAClick, headerBiggerThanAllowedHeight,
             bAlreadyAttachedPinPressHandler, rendered, allowInnerDiv, allowCustomScroll,
             titleSnapped, headerHidden, showExpandContent, showSnapContent, showPinBtn,
             wrapperScrollTop, scrollBarPosition, wrapperScrollPending,
             scrollBarScrollPending, timers, log, resizeHandlerIds, registered,
             destroyed, showFooter, footerShowClass, footerHideClass, footerSpacer,
             footerWrapperHidden, media, footerTimers>>

history == <<op, snapRequested, chain>>

vars == <<config, geometry, control, history>>

Max(a, b) == IF a >= b THEN a ELSE b

Min(a, b) == IF a <= b THEN a ELSE b

\* Math.ceil of a length given in quarter pixels
Ceil4(q) == (q + 3) \div 4

\* a value that is not a number (undefined, NaN); lengths are never negative
NaN == -1

\* typeof v === "number" && !isNaN(parseInt(v, 10))
isNumber(v) == v # NaN

\* the integer the browser reports (scrollHeight, clientHeight) for a length
\* given in quarter pixels: the nearest one
Round4(q) == (q + 2) \div 4

\* the ranges the measured lengths are drawn from
HeaderHeights ==
    0..(IF "measure" \in probe THEN MaxMeasuredHeaderHeight ELSE MaxHeaderHeight)

OwnHeights ==
    1..(IF "measure" \in probe THEN MaxMeasuredOwnHeight ELSE MaxOwnHeight)

ViewportHeights4 ==
    {4 * ViewportHeight + q :
        q \in 0..(IF "measure" \in probe THEN MaxViewportQuarters ELSE 0)}

\* the widths of the control: none, and the widths at and next to the two
\* break points
Widths ==
    IF "media" \in probe
    THEN {0, 1, BREAK_POINTS.PHONE, BREAK_POINTS.PHONE + 1,
          BREAK_POINTS.TABLET, BREAK_POINTS.TABLET + 1}
    ELSE {BREAK_POINTS.TABLET + 1}

\* the wrapper's scrollHeight is never below its (rounded) own height
ScrollHeights == Round4(clientHeight4)..(ViewportHeight + MaxScrollable)

(***************************************************************************)
(* The controller record: the fields a handler may write.                  *)
(***************************************************************************)
Cur ==
    [ headerAlwaysExpanded |-> headerAlwaysExpanded,
      headerExpanded |-> headerExpanded,
      bPinned |-> bPinned,
      bHeaderInTitleArea |-> bHeaderInTitleArea,
      bExpandingWithAClick |-> bExpandingWithAClick,
      headerBiggerThanAllowedHeight |-> headerBiggerThanAllowedHeight,
      bAlreadyAttachedPinPressHandler |-> bAlreadyAttachedPinPressHandler,
      rendered |-> rendered,
      allowInnerDiv |-> allowInnerDiv,
      allowCustomScroll |-> allowCustomScroll,
      titleSnapped |-> titleSnapped,
      headerHidden |-> headerHidden,
      showExpandContent |-> showExpandContent,
      showSnapContent |-> showSnapContent,
      showPinBtn |-> showPinBtn,
      wrapperScrollTop |-> wrapperScrollTop,
      scrollBarPosition |-> scrollBarPosition,
      wrapperScrollPending |-> wrapperScrollPending,
      scrollBarScrollPending |-> scrollBarScrollPending,
      timers |-> timers,
      resizeHandlerIds |-> resizeHandlerIds,
      registered |-> registered,
      destroyed |-> destroyed,
      showFooter |-> showFooter,
      footerShowClass |-> footerShowClass,
      footerHideClass |-> footerHideClass,
      footerSpacer |-> footerSpacer,
      footerWrapperHidden |-> footerWrapperHidden,
      media |-> media,
      footerTimers |-> footerTimers,
      log |-> "none",
      written |-> 0 ]

\* The outputs of the control that no method of the control reads back: CSS
\* classes, the shown parts of the title and of the header, the log.  A
\* specification records the ones named in `probe`; the others keep their
\* initial value, which leaves the behaviour of the control as it is.
Out(name, new, old) == IF name \in probe THEN new ELSE old

Apply(s) ==
    /\ headerAlwaysExpanded' = s.headerAlwaysExpanded
    /\ headerExpanded' = s.headerExpanded
    /\ bPinned' = s.bPinned
    /\ bHeaderInTitleArea' = s.bHeaderInTitleArea
    /\ bExpandingWithAClick' = s.bExpandingWithAClick
    /\ headerBiggerThanAllowedHeight' = s.headerBiggerThanAllowedHeight
    /\ bAlreadyAttachedPinPressHandler' = s.bAlreadyAttachedPinPressHandler
    /\ rendered' = s.rendered
    /\ allowInnerDiv' = s.allowInnerDiv
    /\ allowCustomScroll' = s.allowCustomScroll
    /\ titleSnapped' = Out("titleSnapped", s.titleSnapped, titleSnapped)
    /\ headerHidden' = Out("headerHidden", s.headerHidden, headerHidden)
    /\ showExpandContent' = Out("titleContent", s.showExpandContent, showExpandContent)
    /\ showSnapContent' = Out("titleContent", s.showSnapContent, showSnapContent)
    /\ showPinBtn' = Out("showPinBtn", s.showPinBtn, showPinBtn)
    /\ wrapperScrollTop' = s.wrapperScrollTop
    /\ scrollBarPosition' = s.scrollBarPosition
    /\ wrapperScrollPending' = s.wrapperScrollPending
    /\ scrollBarScrollPending' = s.scrollBarScrollPending
    /\ timers' = s.timers
    /\ resizeHandlerIds' = Out("resizeHandlers", s.resizeHandlerIds, resizeHandlerIds)
    /\ registered' = Out("resizeHandlers", s.registered, registered)
    /\ destroyed' = s.destroyed
    /\ showFooter' = s.showFooter
    /\ footerShowClass' = s.footerShowClass
    /\ footerHideClass' = s.footerHideClass
    /\ footerSpacer' = Out("footer", s.footerSpacer, footerSpacer)
    /\ footerWrapperHidden' = Out("footer", s.footerWrapperHidden, footerWrapperHidden)
    /\ media' = Out("media", s.media, media)
    /\ footerTimers' = s.footerTimers
    /\ log' = Out("log", s.log, log)

\* the history: the last operation, when its name is recorded
Did(name) ==
    /\ op' = Out(name, name, "-")
    /\ snapRequested' = FALSE
    /\ chain' = [dispatched |-> 0, written |-> 0]

\* a command (title press, setHeaderExpanded) issued with the header expanded,
\* snapping allowed, a vertical scroll bar needed, the header not scrolled
\* out and enough content to snap by scrolling
IssuedToSnapByScroll ==
    /\ headerExpanded
    /\ ~(headerAlwaysExpanded /\ ~headerBiggerThanAllowedHeight)
    /\ ~bPinned
    /\ rendered
    /\ scrollHeight - Ceil4(clientHeight4) > 0
    /\ (IF desktop THEN scrollBarPosition ELSE wrapperScrollTop)
           <= (IF hasHeader /\ headerHeight # 0 THEN headerHeight
               ELSE IF hasTitle THEN titleHeight ELSE 0)
    /\ scrollHeight - Ceil4(clientHeight4)
           > (IF hasHeader /\ headerHeight # 0 THEN headerHeight
              ELSE IF hasTitle THEN titleHeight ELSE 0) + 1

DidCommand(name) ==
    /\ op' = Out(name, name, "-")
    /\ snapRequested' = Out("snapRequested", IssuedToSnapByScroll, FALSE)
    /\ chain' = [dispatched |-> 0, written |-> 0]

\* the dispatch of a scroll event keeps the request of the command alive
DidScroll(name) ==
    /\ op' = Out(name, name, "-")
    /\ snapRequested' = snapRequested

\* the dispatch of a scroll event whose handler ends in the record s: one more
\* event of the chain, and the scroll positions the handler wrote
Chained(s) ==
    chain' = Out("chain",
                 [dispatched |-> Min(chain.dispatched + 1, MaxChain),
                  written |-> Min(chain.written + s.written, MaxChain)],
                 chain)

(***************************************************************************)
(* Geometry queries.                                                       *)
(***************************************************************************)
\* _getHeight(oControl): 0 without the control or without its DOM
_getHeight(s, bExists, iOuterHeight) ==
    IF ~bExists THEN 0 ELSE IF s.rendered THEN iOuterHeight ELSE 0

_getOwnHeight(s) == _getHeight(s, TRUE, ownHeight)

_getTitleHeight(s) == _getHeight(s, hasTitle, titleHeight)

_getHeaderHeight(s) == _getHeight(s, hasHeader, headerHeight)

_getEntireHeaderHeight(s) ==
    LET iTitleHeight == IF hasTitle /\ s.rendered THEN titleHeight ELSE 0
        iHeaderHeight == IF hasHeader /\ s.rendered THEN headerHeight ELSE 0
    IN  iTitleHeight + iHeaderHeight

\* a faulty variant: the title's height is not used when the header has none
_getSnappingHeight_HeaderOnly(s) == _getHeaderHeight(s)

\* this._getHeaderHeight() || this._getTitleHeight()
_getSnappingHeight(s) ==
    IF _getHeaderHeight(s) # 0 THEN _getHeaderHeight(s) ELSE _getTitleHeight(s)

_getMaxScrollPosition(s) ==
    IF s.rendered THEN scrollHeight - Ceil4(clientHeight4) ELSE 0

_needsVerticalScrollBar(s) == _getMaxScrollPosition(s) > 0

\* a faulty variant: the margin of one pixel past the snapping height is
\* forgotten
_canSnapHeaderOnScroll_NoMargin(s) == _getMaxScrollPosition(s) > _getSnappingHeight(s)

_canSnapHeaderOnScroll(s) == _getMaxScrollPosition(s) > _getSnappingHeight(s) + 1

\* a faulty variant: only the header, not the title and the header, is
\* compared with the control
_headerBiggerThanAllowedToExpandWithACommand_HeaderOnly(s) ==
    _getHeaderHeight(s) > _getOwnHeight(s)

_headerBiggerThanAllowedToExpandWithACommand(s) ==
    _getEntireHeaderHeight(s) > _getOwnHeight(s)

\* iControlHeight is a number, or "NaN" for anything typeof/parseInt rejects
\* a faulty variant: the height the resize reports is ignored and the height
\* the control had before is used
_headerBiggerThanAllowedToPin_HeightIgnored(s, iControlHeight) ==
    10 * _getEntireHeaderHeight(s) > HEADER_MAX_ALLOWED_PINNED_PERCENTAGE * _getOwnHeight(s)

\* a faulty variant: a header of exactly the allowed share is already too tall
_headerBiggerThanAllowedToPin_AtLeast(s, iControlHeight) ==
    LET h == IF isNumber(iControlHeight) THEN iControlHeight ELSE _getOwnHeight(s)
    IN  10 * _getEntireHeaderHeight(s) >= HEADER_MAX_ALLOWED_PINNED_PERCENTAGE * h

_headerBiggerThanAllowedToPin(s, iControlHeight) ==
    LET h == IF isNumber(iControlHeight) THEN iControlHeight ELSE _getOwnHeight(s)
    IN  10 * _getEntireHeaderHeight(s) > HEADER_MAX_ALLOWED_PINNED_PERCENTAGE * h

_headerBiggerThanAllowedToBeFixed(s) ==
    10 * _getEntireHeaderHeight(s)
        > HEADER_MAX_ALLOWED_NON_SROLLABLE_PERCENTAGE * _getOwnHeight(s)

_headerAlwaysExpanded(s) ==
    s.headerAlwaysExpanded /\ ~s.headerBiggerThanAllowedHeight

\* a faulty variant: the override is not limited to non-desktop devices
_shouldOverrideHeaderAlwaysExpanded_AnyDevice(s) ==
    _headerBiggerThanAllowedToBeFixed(s) /\ _headerAlwaysExpanded(s)

_shouldOverrideHeaderAlwaysExpanded(s) ==
    ~desktop /\ _headerBiggerThanAllowedToBeFixed(s) /\ _headerAlwaysExpanded(s)

(***************************************************************************)
(* Scroll sources.  A write that changes an element's scrollTop makes the  *)
(* browser dispatch a scroll event of that element later; a write of the   *)
(* current value dispatches nothing.  The browser clamps every write to    *)
(* the scrollable range.                                                   *)
(***************************************************************************)
ClampScroll(s, iPos) == Max(0, Min(iPos, _getMaxScrollPosition(s)))

\* this.$wrapper.scrollTop(iPos)
WrapperScrollTopWrite(s, iPos) ==
    LET p == ClampScroll(s, iPos)
    IN  [s EXCEPT !.wrapperScrollTop = p,
                  !.wrapperScrollPending = @ \/ (p # s.wrapperScrollTop),
                  !.written = @ + 1]

\* this._getScrollBar().setScrollPosition(iPos)
ScrollBarSetScrollPosition(s, iPos) ==
    LET p == ClampScroll(s, iPos)
    IN  [s EXCEPT !.scrollBarPosition = p,
                  !.scrollBarScrollPending = @ \/ (p # s.scrollBarPosition),
                  !.written = @ + 1]

_getScrollPosition(s) ==
    IF desktop THEN s.scrollBarPosition ELSE s.wrapperScrollTop

_setScrollPosition(s, iNewScrollPosition) ==
    IF s.rendered
    THEN LET s1 == WrapperScrollTopWrite(s, iNewScrollPosition)
         IN  IF desktop THEN ScrollBarSetScrollPosition(s1, iNewScrollPosition) ELSE s1
    ELSE s

\* a faulty variant: the scroll evaluation snaps without asking whether the
\* header is always expanded
_shouldSnap_AlwaysExpandedIgnored(s) ==
    /\ _getScrollPosition(s) > _getSnappingHeight(s)
    /\ s.headerExpanded
    /\ ~s.bPinned

_shouldSnap(s) ==
    /\ ~_headerAlwaysExpanded(s)
    /\ _getScrollPosition(s) > _getSnappingHeight(s)
    /\ s.headerExpanded
    /\ ~s.bPinned

_shouldExpand(s) ==
    /\ ~_headerAlwaysExpanded(s)
    /\ _getScrollPosition(s) < _getSnappingHeight(s)
    /\ ~s.headerExpanded
    /\ ~s.bPinned

_headerScrolledOut(s) == _getScrollPosition(s) > _getSnappingHeight(s)

_headerSnapAllowed(s) ==
    ~_headerAlwaysExpanded(s) /\ s.headerExpanded /\ ~s.bPinned

(***************************************************************************)
(* Header transitions.                                                     *)
(***************************************************************************)
_moveHeaderToContentArea(s) ==
    IF hasHeader THEN [s EXCEPT !.bHeaderInTitleArea = FALSE] ELSE s

_moveHeaderToTitleArea(s) ==
    IF hasHeader THEN [s EXCEPT !.bHeaderInTitleArea = TRUE] ELSE s

\* a faulty variant: the pinned header is snapped like any other
_snapHeader_PinIgnored(s, bAppendHeaderToContent) ==
    LET s1 == IF hasTitle /\ hasExpandedContent
              THEN [s EXCEPT !.showExpandContent = FALSE] ELSE s
        s2 == IF hasTitle /\ hasSnappedContent
              THEN [s1 EXCEPT !.showSnapContent = TRUE] ELSE s1
        s3 == IF hasTitle /\ bAppendHeaderToContent
              THEN _moveHeaderToContentArea(s2) ELSE s2
    IN  IF ~s3.rendered
        THEN [s3 EXCEPT !.log = "couldn't snap header. There's no title."]
        ELSE [s3 EXCEPT !.headerExpanded = FALSE, !.titleSnapped = TRUE]

_snapHeader(s, bAppendHeaderToContent) ==
    IF s.bPinned
    THEN s
    ELSE LET s1 == IF hasTitle /\ hasExpandedContent
                   THEN [s EXCEPT !.showExpandContent = FALSE] ELSE s
             s2 == IF hasTitle /\ hasSnappedContent
                   THEN [s1 EXCEPT !.showSnapContent = TRUE] ELSE s1
             s3 == IF hasTitle /\ bAppendHeaderToContent
                   THEN _moveHeaderToContentArea(s2) ELSE s2
         IN  IF ~s3.rendered
             THEN [s3 EXCEPT !.log = "couldn't snap header. There's no title."]
             ELSE [s3 EXCEPT !.headerExpanded = FALSE, !.titleSnapped = TRUE]

\* a faulty variant: the header changes area at every call that moves it
_expandHeader_AreaToggled(s, bAppendHeaderToTitle) ==
    LET s1 == IF hasTitle /\ hasExpandedContent
              THEN [s EXCEPT !.showExpandContent = TRUE] ELSE s
        s2 == IF hasTitle /\ hasSnappedContent
              THEN [s1 EXCEPT !.showSnapContent = FALSE] ELSE s1
        s3 == IF hasTitle /\ hasHeader /\ bAppendHeaderToTitle
              THEN [s2 EXCEPT !.bHeaderInTitleArea = ~@] ELSE s2
    IN  IF ~s3.rendered
        THEN [s3 EXCEPT !.log = "couldn't expand header. There's no title."]
        ELSE [s3 EXCEPT !.headerExpanded = TRUE, !.titleSnapped = FALSE]

\* a faulty variant: the header is expanded where it is, whatever the argument
_expandHeader_HeaderNotMoved(s, bAppendHeaderToTitle) ==
    LET s1 == IF hasTitle /\ hasExpandedContent
              THEN [s EXCEPT !.showExpandContent = TRUE] ELSE s
        s2 == IF hasTitle /\ hasSnappedContent
              THEN [s1 EXCEPT !.showSnapContent = FALSE] ELSE s1
    IN  IF ~s2.rendered
        THEN [s2 EXCEPT !.log = "couldn't expand header. There's no title."]
        ELSE [s2 EXCEPT !.headerExpanded = TRUE, !.titleSnapped = FALSE]

_expandHeader(s, bAppendHeaderToTitle) ==
    LET s1 == IF hasTitle /\ hasExpandedContent
              THEN [s EXCEPT !.showExpandContent = TRUE] ELSE s
        s2 == IF hasTitle /\ hasSnappedContent
              THEN [s1 EXCEPT !.showSnapContent = FALSE] ELSE s1
        s3 == IF hasTitle /\ bAppendHeaderToTitle
              THEN _moveHeaderToTitleArea(s2) ELSE s2
    IN  IF ~s3.rendered
        THEN [s3 EXCEPT !.log = "couldn't expand header. There's no title."]
        ELSE [s3 EXCEPT !.headerExpanded = TRUE, !.titleSnapped = FALSE]

\* the state effect of _measureScrollBarOffsetHeight (its result only sizes
\* the ScrollBar)
_measureScrollBarOffsetHeight(s) ==
    LET bSnapped == ~s.headerExpanded
    IN  IF _headerAlwaysExpanded(s) \/ s.bPinned
        THEN s
        ELSE IF bSnapped \/ ~hasTitle \/ ~_canSnapHeaderOnScroll(s)
        THEN s
        ELSE LET s1 == _snapHeader(s, TRUE)
             IN  IF _shouldExpand(s1) /\ ~bSnapped
                 THEN _expandHeader(s1, FALSE)
                 ELSE s1

\* the two zero-delay callbacks it schedules (_updateScrollBarOffset,
\* _updateFitContainer) only write CSS and are not kept in `timers`
_updateScrollBar(s) ==
    IF ~desktop \/ ~s.rendered THEN s ELSE _measureScrollBarOffsetHeight(s)

\* a faulty variant: the hidden class is toggled with bShow, not with !bShow
_toggleHeaderVisibility_ClassInverted(s, bShow) ==
    LET bExpanded == s.headerExpanded
    IN  IF s.bPinned
        THEN s
        ELSE LET s1 == IF hasTitle
                       THEN [s EXCEPT !.showExpandContent = bExpanded,
                                      !.showSnapContent = ~bExpanded]
                       ELSE s
             IN  IF hasHeader
                 THEN _updateScrollBar(
                          IF s1.rendered THEN [s1 EXCEPT !.headerHidden = bShow] ELSE s1)
                 ELSE s1

_toggleHeaderVisibility(s, bShow) ==
    LET bExpanded == s.headerExpanded
    IN  IF s.bPinned
        THEN s
        ELSE LET s1 == IF hasTitle
                       THEN [s EXCEPT !.showExpandContent = bExpanded,
                                      !.showSnapContent = ~bExpanded]
                       ELSE s
             IN  IF hasHeader
                 THEN _updateScrollBar(
                          IF s1.rendered THEN [s1 EXCEPT !.headerHidden = ~bShow] ELSE s1)
                 ELSE s1

\* a faulty variant: the cleanup branch is missing
_toggleHeader_NoCleanup(s) ==
    IF _shouldSnap(s) THEN _snapHeader(s, TRUE)
    ELSE IF _shouldExpand(s) THEN _expandHeader(s, FALSE)
    ELSE s

\* a faulty variant: the cleanup branch moves the header without asking
\* whether it is pinned
_toggleHeader_PinIgnored(s) ==
    IF _shouldSnap(s) THEN _snapHeader(s, TRUE)
    ELSE IF _shouldExpand(s) THEN _expandHeader(s, FALSE)
    ELSE IF s.bHeaderInTitleArea THEN _moveHeaderToContentArea(s)
    ELSE s

_toggleHeader(s) ==
    IF _shouldSnap(s) THEN _snapHeader(s, TRUE)
    ELSE IF _shouldExpand(s) THEN _expandHeader(s, FALSE)
    ELSE IF ~s.bPinned /\ s.bHeaderInTitleArea THEN _moveHeaderToContentArea(s)
    ELSE s

\* a faulty variant: the header is pinned where it is, without being moved to
\* the title area
_pin_HeaderNotMoved(s) ==
    IF ~s.bPinned
    THEN _updateScrollBar([s EXCEPT !.bPinned = TRUE])
    ELSE s

_pin(s) ==
    IF ~s.bPinned
    THEN _updateScrollBar(_moveHeaderToTitleArea([s EXCEPT !.bPinned = TRUE]))
    ELSE s

_unPin(s) ==
    IF s.bPinned THEN [s EXCEPT !.bPinned = FALSE] ELSE s

_overrideHeaderAlwaysExpanded(s) ==
    IF ~_shouldOverrideHeaderAlwaysExpanded(s)
    THEN [s EXCEPT !.headerBiggerThanAllowedHeight = FALSE]
    ELSE _updateScrollBar(
             _moveHeaderToContentArea([s EXCEPT !.headerBiggerThanAllowedHeight = TRUE]))

\* a faulty variant: the content is scrolled to the snapping height itself
_scrollToSnapHeader_OffByOne(s) == _setScrollPosition(s, _getSnappingHeight(s))

_scrollToSnapHeader(s) == _setScrollPosition(s, _getSnappingHeight(s) + 1)

_titleExpandCollapseWhenAllowed(s) ==
    IF _headerBiggerThanAllowedToExpandWithACommand(s)
    THEN [s EXCEPT !.log = "couldn't expand header. There isn't enough space for it to fit on the screen"]
    ELSE IF _headerAlwaysExpanded(s) \/ ~_needsVerticalScrollBar(s)
    THEN IF ~s.headerExpanded
         THEN _toggleHeaderVisibility(_expandHeader(s, FALSE), TRUE)
         ELSE _toggleHeaderVisibility(_snapHeader(s, FALSE), FALSE)
    ELSE IF ~s.headerExpanded
    THEN _expandHeader([s EXCEPT !.bExpandingWithAClick = TRUE], TRUE)
    ELSE IF _headerSnapAllowed(s)
    THEN IF _headerScrolledOut(s) THEN _snapHeader(s, TRUE)
         ELSE IF _canSnapHeaderOnScroll(s) THEN _scrollToSnapHeader(s)
         ELSE [s EXCEPT !.log = "couldn't snap header. There isn't enough content to be scrolled"]
    ELSE s

(***************************************************************************)
(* Resize handlers.  this[sHandler] is undefined after construction, the   *)
(* id ResizeHandler.register returned ("id") while a registration is held, *)
(* and null after _deRegisterResizeHandler.  `registered` counts, for each *)
(* name, the registrations made and not yet deregistered.                  *)
(***************************************************************************)
_registerResizeHandler(s, sHandler) ==
    IF s.resizeHandlerIds[sHandler] # "id"
    THEN [s EXCEPT !.resizeHandlerIds[sHandler] = "id",
                   !.registered[sHandler] = @ + 1]
    ELSE s

\* a faulty variant: the field is cleared but ResizeHandler.deregister is not
\* called
_deRegisterResizeHandler_FieldOnly(s, sHandler) ==
    IF s.resizeHandlerIds[sHandler] = "id"
    THEN [s EXCEPT !.resizeHandlerIds[sHandler] = "null"]
    ELSE s

_deRegisterResizeHandler(s, sHandler) ==
    IF s.resizeHandlerIds[sHandler] = "id"
    THEN [s EXCEPT !.resizeHandlerIds[sHandler] = "null",
                   !.registered[sHandler] = @ - 1]
    ELSE s

_attachResizeHandlers(s) ==
    LET s1 == _registerResizeHandler(s, "_sResizeHandlerId")
        s2 == IF hasTitle /\ s1.rendered
              THEN _registerResizeHandler(s1, "_sTitleResizeHandlerId") ELSE s1
    IN  IF s2.rendered THEN _registerResizeHandler(s2, "_sContentResizeHandlerId") ELSE s2

_detachResizeHandlers(s) ==
    _deRegisterResizeHandler(
        _deRegisterResizeHandler(
            _deRegisterResizeHandler(s, "_sResizeHandlerId"),
            "_sTitleResizeHandlerId"),
        "_sContentResizeHandlerId")

(***************************************************************************)
(* Handlers, as functions of the controller record.                        *)
\* toggleClass(sClass, bOn) on an element of the rendering
ToggleClass(bOn) == IF bOn THEN "on" ELSE "off"

_toggleFooterSpacer(s, bToggle) ==
    IF s.rendered THEN [s EXCEPT !.footerSpacer = ToggleClass(bToggle)] ELSE s

\* a faulty variant: the callback hides the wrapper whatever showFooter is by
\* the time it fires
_toggleFooterHiddenCallback_Stale(s) ==
    [s EXCEPT !.footerWrapperHidden = ToggleClass(TRUE)]

\* this.$footerWrapper.toggleClass("sapUiHidden", !this.getShowFooter())
_toggleFooterHiddenCallback(s) ==
    [s EXCEPT !.footerWrapperHidden = ToggleClass(~s.showFooter)]

\* oFooter.removeStyleClass("sapFDynamicPageActualFooterControlShow")
_removeFooterShowCallback(s) == [s EXCEPT !.footerShowClass = FALSE]

_toggleFooter(s, bShow) ==
    IF ~hasFooter
    THEN s
    ELSE LET s1 == _toggleFooterSpacer(
                       [s EXCEPT !.footerShowClass = bShow, !.footerHideClass = ~bShow],
                       bShow)
             s2 == IF ~bUseAnimations
                   THEN s1
                   ELSE LET s3 == IF ~bShow
                                  THEN [s1 EXCEPT !.footerTimers =
                                                      Append(@, "toggleFooterHidden")]
                                  ELSE [s1 EXCEPT !.footerWrapperHidden =
                                                      ToggleClass(~s1.showFooter)]
                        IN  [s3 EXCEPT !.footerTimers = Append(@, "removeFooterShow")]
         IN  _updateScrollBar(s2)

setShowFooter(s, bShowFooter) ==
    _toggleFooter([s EXCEPT !.showFooter = bShowFooter], bShowFooter)

_getWidth(s) == IF s.rendered THEN ownWidth ELSE 0

\* every class of DynamicPage.MEDIA is toggled: on for the current one, off
\* for the others
_updateMediaStyle(s, sCurrentMedia) ==
    LET aMedia == {MEDIA[sMedia] : sMedia \in DOMAIN MEDIA}
    IN  [s EXCEPT !.media = (@ \ aMedia) \cup {c \in aMedia : c = sCurrentMedia}]

\* a faulty variant: a width of exactly the phone break point is not a
\* phone's any more
_updateMedia_PhoneExclusive(s, iWidth) ==
    IF iWidth = 0 THEN _updateMediaStyle(s, MEDIA.INVISIBLE)
    ELSE IF iWidth < BREAK_POINTS.PHONE THEN _updateMediaStyle(s, MEDIA.PHONE)
    ELSE IF iWidth <= BREAK_POINTS.TABLET THEN _updateMediaStyle(s, MEDIA.TABLET)
    ELSE _updateMediaStyle(s, MEDIA.DESKTOP)

_updateMedia(s, iWidth) ==
    IF iWidth = 0 THEN _updateMediaStyle(s, MEDIA.INVISIBLE)
    ELSE IF iWidth <= BREAK_POINTS.PHONE THEN _updateMediaStyle(s, MEDIA.PHONE)
    ELSE IF iWidth <= BREAK_POINTS.TABLET THEN _updateMediaStyle(s, MEDIA.TABLET)
    ELSE _updateMediaStyle(s, MEDIA.DESKTOP)

(***************************************************************************)
\* onBeforeRendering, the rendering itself and onAfterRendering
onBeforeRendering(s) ==
    IF ~_headerAlwaysExpanded(s) /\ hasHeader
    THEN [s EXCEPT !.bAlreadyAttachedPinPressHandler = TRUE]
    ELSE s

onAfterRendering(s) ==
    LET bHeaderAlwaysExpanded == _headerAlwaysExpanded(s)
        s1 == IF bHeaderAlwaysExpanded /\ hasHeader
              THEN [s EXCEPT !.showPinBtn = FALSE,
                             !.timers = Append(@, "_overrideHeaderAlwaysExpanded")]
              ELSE s
        \* the rendering has written a new footer wrapper and spacer
        s2 == [s1 EXCEPT !.rendered = TRUE,
                         !.footerWrapperHidden = "rendered",
                         !.footerSpacer = "rendered"]
    IN  _updateScrollBar(
            _updateMedia(_attachResizeHandlers(_detachResizeHandlers(s2)), _getWidth(s2)))

exit(s) == [_detachResizeHandlers(s) EXCEPT !.destroyed = TRUE]

setHeaderExpanded(s, bHeaderExpanded) ==
    IF s.headerExpanded = bHeaderExpanded THEN s ELSE _titleExpandCollapseWhenAllowed(s)

\* a faulty variant: headerExpanded is left as it was
setHeaderAlwaysExpanded_ExpandedKept(s, bHeaderAlwaysExpanded) ==
    [s EXCEPT !.headerAlwaysExpanded = bHeaderAlwaysExpanded]

setHeaderAlwaysExpanded(s, bHeaderAlwaysExpanded) ==
    LET s1 == [s EXCEPT !.headerAlwaysExpanded = bHeaderAlwaysExpanded]
    IN  IF bHeaderAlwaysExpanded THEN [s1 EXCEPT !.headerExpanded = TRUE] ELSE s1

_onPinUnpinButtonPress(s) ==
    IF s.bPinned THEN _unPin(s) ELSE _pin(s)

\* a faulty variant: the wrapper's scroll event evaluates the header on every
\* device, whether or not a command is expanding it
_onWrapperScroll_AlwaysEvaluates(s, iScrollTop) ==
    LET s1 == _toggleHeader(s)
    IN  IF desktop
        THEN IF s1.allowCustomScroll /\ iScrollTop > 0
             THEN [s1 EXCEPT !.allowCustomScroll = FALSE]
             ELSE ScrollBarSetScrollPosition([s1 EXCEPT !.allowInnerDiv = TRUE], iScrollTop)
        ELSE s1

_onWrapperScroll(s, iScrollTop) ==
    LET s1 == IF ~desktop \/ ~s.bExpandingWithAClick THEN _toggleHeader(s) ELSE s
    IN  IF desktop
        THEN IF s1.allowCustomScroll /\ iScrollTop > 0
             THEN [s1 EXCEPT !.allowCustomScroll = FALSE]
             ELSE ScrollBarSetScrollPosition([s1 EXCEPT !.allowInnerDiv = TRUE], iScrollTop)
        ELSE s1

_onScrollBarScroll(s) ==
    LET s1 == _toggleHeader(s)
    IN  IF s1.allowInnerDiv
        THEN [s1 EXCEPT !.allowInnerDiv = FALSE]
        ELSE WrapperScrollTopWrite([s1 EXCEPT !.allowCustomScroll = TRUE],
                                   s1.scrollBarPosition)

_onResize(s, iHeight, iWidth) ==
    LET s1 == IF ~_headerAlwaysExpanded(s) /\ hasHeader
              THEN IF _headerBiggerThanAllowedToPin(s, iHeight) \/ phone
                   THEN [_unPin(s) EXCEPT !.showPinBtn = FALSE]
                   ELSE [s EXCEPT !.showPinBtn = TRUE]
              ELSE s
    IN  _updateMedia(_updateScrollBar(s1), iWidth)

\* a faulty variant: the ScrollBar is updated whether or not the header is
\* being expanded by a command
_onChildControlsHeightChange_FlagIgnored(s, bHeightChanged) ==
    LET s1 == IF bHeightChanged THEN _updateScrollBar(s) ELSE s
    IN  [s1 EXCEPT !.bExpandingWithAClick = FALSE]

_onChildControlsHeightChange(s, bHeightChanged) ==
    LET s1 == IF bHeightChanged /\ ~s.bExpandingWithAClick THEN _updateScrollBar(s) ELSE s
    IN  [s1 EXCEPT !.bExpandingWithAClick = FALSE]

_onChildControlAfterRendering(s, bSrcIsTitle) ==
    LET s1 == IF bSrcIsTitle
              THEN _registerResizeHandler(
                       _deRegisterResizeHandler(s, "_sTitleResizeHandlerId"),
                       "_sTitleResizeHandlerId")
              ELSE s
    IN  [s1 EXCEPT !.timers = Append(@, "_updateScrollBar")]

(***************************************************************************)
(* Initial state: the control after construction (init), before its first  *)
(* rendering.  headerAlwaysExpanded may be given to the constructor.       *)
(***************************************************************************)
Init ==
    /\ desktop \in BOOLEAN
    /\ phone \in IF desktop THEN {FALSE} ELSE BOOLEAN
    /\ hasTitle \in BOOLEAN
    /\ hasHeader \in BOOLEAN
    /\ hasExpandedContent \in IF hasTitle /\ "titleContent" \in probe THEN BOOLEAN ELSE {hasTitle}
    /\ hasSnappedContent \in IF hasTitle /\ "titleContent" \in probe THEN BOOLEAN ELSE {hasTitle}
    /\ hasFooter \in IF "footer" \in probe THEN BOOLEAN ELSE {FALSE}
    /\ bUseAnimations \in IF "footer" \in probe THEN BOOLEAN ELSE {TRUE}
    /\ titleHeight = IF hasTitle THEN TitleHeight ELSE 0
    /\ headerHeight \in IF hasHeader THEN HeaderHeights ELSE {0}
    /\ ownHeight \in OwnHeights
    /\ ownWidth \in Widths
    /\ clientHeight4 \in ViewportHeights4
    /\ scrollHeight \in ScrollHeights
    /\ headerAlwaysExpanded \in BOOLEAN
    /\ headerExpanded = TRUE
    /\ bPinned = FALSE
    /\ bHeaderInTitleArea = FALSE
    /\ bExpandingWithAClick = FALSE
    /\ headerBiggerThanAllowedHeight = FALSE
    /\ bAlreadyAttachedPinPressHandler = FALSE
    /\ rendered = FALSE
    /\ allowInnerDiv = FALSE
    /\ allowCustomScroll = FALSE
    /\ titleSnapped = FALSE
    /\ headerHidden = FALSE
    /\ showExpandContent = TRUE
    /\ showSnapContent = FALSE
    /\ showPinBtn = TRUE
    /\ wrapperScrollTop = 0
    /\ scrollBarPosition = 0
    /\ wrapperScrollPending = FALSE
    /\ scrollBarScrollPending = FALSE
    /\ timers = <<>>
    /\ resizeHandlerIds = [h \in RESIZE_HANDLER_ID |-> "undefined"]
    /\ registered = [h \in RESIZE_HANDLER_ID |-> 0]
    /\ destroyed = FALSE
    /\ showFooter = FALSE
    /\ footerShowClass = FALSE
    /\ footerHideClass = FALSE
    /\ footerSpacer = "rendered"
    /\ footerWrapperHidden = "rendered"
    /\ media = {}
    /\ footerTimers = <<>>
    /\ log = "none"
    /\ op = "-"
    /\ snapRequested = FALSE
    /\ chain = [dispatched |-> 0, written |-> 0]

(***************************************************************************)
(* Actions.                                                                *)
(***************************************************************************)
Render ==
    /\ Len(timers) < MaxTimers
    /\ Apply(onAfterRendering(onBeforeRendering(Cur)))
    /\ Did("render")
    /\ UNCHANGED <<config, geometry>>

SetHeaderExpanded ==
    \E b \in BOOLEAN :
        /\ Apply(setHeaderExpanded(Cur, b))
        /\ IF b = headerExpanded
           THEN Did("setHeaderExpandedSame")
           ELSE DidCommand("setHeaderExpanded")
        /\ UNCHANGED <<config, geometry>>

SetHeaderAlwaysExpanded ==
    \E b \in BOOLEAN :
        /\ Apply(setHeaderAlwaysExpanded(Cur, b))
        /\ Did("setHeaderAlwaysExpanded")
        /\ UNCHANGED <<config, geometry>>

TitlePress ==
    /\ rendered /\ hasTitle
    /\ Apply(_titleExpandCollapseWhenAllowed(Cur))
    /\ DidCommand("titlePress")
    /\ UNCHANGED <<config, geometry>>

PinUnpinButtonPress ==
    /\ bAlreadyAttachedPinPressHandler
    /\ Apply(_onPinUnpinButtonPress(Cur))
    /\ Did("pinUnpinPress")
    /\ UNCHANGED <<config, geometry>>

\* the user scrolls the content
UserScrollWrapper ==
    /\ rendered
    /\ \E p \in 0..Max(0, _getMaxScrollPosition(Cur)) :
           /\ p # wrapperScrollTop
           /\ Apply([Cur EXCEPT !.wrapperScrollTop = p, !.wrapperScrollPending = TRUE])
    /\ Did("userScroll")
    /\ UNCHANGED <<config, geometry>>

\* the user drags the synthetic ScrollBar (desktop only)
UserScrollBar ==
    /\ rendered /\ desktop
    /\ \E p \in 0..Max(0, _getMaxScrollPosition(Cur)) :
           /\ p # scrollBarPosition
           /\ Apply([Cur EXCEPT !.scrollBarPosition = p, !.scrollBarScrollPending = TRUE])
    /\ Did("userScroll")
    /\ UNCHANGED <<config, geometry>>

OnWrapperScroll ==
    /\ rendered /\ wrapperScrollPending
    /\ LET s == _onWrapperScroll([Cur EXCEPT !.wrapperScrollPending = FALSE],
                                  wrapperScrollTop)
       IN  Apply(s) /\ Chained(s)
    /\ DidScroll("wrapperScroll")
    /\ UNCHANGED <<config, geometry>>

OnScrollBarScroll ==
    /\ rendered /\ scrollBarScrollPending
    /\ LET s == _onScrollBarScroll([Cur EXCEPT !.scrollBarScrollPending = FALSE])
       IN  Apply(s) /\ Chained(s)
    /\ DidScroll("scrollBarScroll")
    /\ UNCHANGED <<config, geometry>>

Resize ==
    /\ rendered
    /\ \E h \in OwnHeights, w \in Widths :
           /\ ownHeight' = h
           /\ ownWidth' = w
           /\ Apply(_onResize(Cur, h, w))
    /\ Did("resize")
    /\ UNCHANGED <<config, scrollHeight>>

ChildControlsHeightChange ==
    /\ rendered
    /\ \E bHeightChanged \in BOOLEAN :
           Apply(_onChildControlsHeightChange(Cur, bHeightChanged))
    /\ Did("heightChange")
    /\ UNCHANGED <<config, geometry>>

ChildControlAfterRendering ==
    /\ rendered
    /\ Len(timers) < MaxTimers
    /\ \E bSrcIsTitle \in (IF hasTitle THEN BOOLEAN ELSE {FALSE}) :
           Apply(_onChildControlAfterRendering(Cur, bSrcIsTitle))
    /\ Did("childRendered")
    /\ UNCHANGED <<config, geometry>>

\* the content grows or shrinks; the browser keeps the scroll offsets in range
ContentChange ==
    /\ rendered
    /\ \E h \in ScrollHeights :
           /\ h # scrollHeight
           /\ scrollHeight' = h
           /\ LET m == Max(0, h - Ceil4(clientHeight4))
                   w == Min(wrapperScrollTop, m)
                   b == Min(scrollBarPosition, m)
               IN  Apply([Cur EXCEPT !.wrapperScrollTop = w,
                                     !.wrapperScrollPending = @ \/ (w # wrapperScrollTop),
                                     !.scrollBarPosition = b,
                                     !.scrollBarScrollPending = @ \/ (b # scrollBarPosition)])
    /\ Did("contentChange")
    /\ UNCHANGED <<config, ownHeight, ownWidth>>

\* the oldest zero-delay callback fires
RunTimer ==
    /\ timers # <<>>
    /\ LET s == [Cur EXCEPT !.timers = Tail(@)]
       IN  IF Head(timers) = "_overrideHeaderAlwaysExpanded"
           THEN Apply(_overrideHeaderAlwaysExpanded(s)) /\ Did("override")
           ELSE Apply(_updateScrollBar(s)) /\ Did("updateScrollBar")
    /\ UNCHANGED <<config, geometry>>

\* setShowFooter; with animations a footer must have been rendered, since
\* the call reads this.$footerWrapper
SetShowFooter ==
    /\ (hasFooter /\ bUseAnimations) => rendered
    /\ Len(footerTimers) + 2 <= MaxFooterTimers
    /\ \E b \in BOOLEAN : Apply(setShowFooter(Cur, b))
    /\ Did("setShowFooter")
    /\ UNCHANGED <<config, geometry>>

\* the oldest callback delayed by FOOTER_ANIMATION_DURATION fires
RunFooterTimer ==
    /\ footerTimers # <<>>
    /\ LET s == [Cur EXCEPT !.footerTimers = Tail(@)]
       IN  IF Head(footerTimers) = "toggleFooterHidden"
           THEN Apply(_toggleFooterHiddenCallback(s))
           ELSE Apply(_removeFooterShowCallback(s))
    /\ Did("footerTimer")
    /\ UNCHANGED <<config, geometry>>

\* the control is destroyed
Exit ==
    /\ ~destroyed
    /\ Apply(exit(Cur))
    /\ Did("exit")
    /\ UNCHANGED <<config, geometry>>

Next ==
    \/ Render
    \/ SetHeaderExpanded
    \/ SetHeaderAlwaysExpanded
    \/ TitlePress
    \/ PinUnpinButtonPress
    \/ UserScrollWrapper
    \/ UserScrollBar
    \/ OnWrapperScroll
    \/ OnScrollBarScroll
    \/ Resize
    \/ ChildControlsHeightChange
    \/ ChildControlAfterRendering
    \/ ContentChange
    \/ RunTimer

\* the control alone: no output and no operation name is recorded
InitControl == probe = {} /\ Init

Spec == InitControl /\ [][Next]_vars

(***************************************************************************)
(* The use of a page whose configuration stays as constructed: every       *)
(* operation but the change of headerAlwaysExpanded and the re-rendering   *)
(* of a child.                                                             *)
(***************************************************************************)
NextUse ==
    \/ Render
    \/ SetHeaderExpanded
    \/ TitlePress
    \/ PinUnpinButtonPress
    \/ UserScrollWrapper
    \/ UserScrollBar
    \/ OnWrapperScroll
    \/ OnScrollBarScroll
    \/ Resize
    \/ ChildControlsHeightChange
    \/ ContentChange
    \/ RunTimer

\* the control alone, in use
SpecUse == InitControl /\ [][NextUse]_vars

(***************************************************************************)
(* The use of a page whose headerAlwaysExpanded property the application   *)
(* may change: every operation but the re-rendering of a child.            *)
(***************************************************************************)
NextSettings ==
    \/ Render
    \/ SetHeaderExpanded
    \/ SetHeaderAlwaysExpanded
    \/ TitlePress
    \/ PinUnpinButtonPress
    \/ UserScrollWrapper
    \/ UserScrollBar
    \/ OnWrapperScroll
    \/ OnScrollBarScroll
    \/ Resize
    \/ ChildControlsHeightChange
    \/ ContentChange
    \/ RunTimer

SpecSettings == InitControl /\ [][NextSettings]_vars

\* records the scroll dispatches and the class of the title area
InitScroll == probe = {"wrapperScroll", "scrollBarScroll", "titleSnapped"} /\ Init

SpecScroll == InitScroll /\ [][NextUse]_vars

\* records the commands, the log, the class of the header and the request to
\* snap by scrolling
InitCommand ==
    probe = {"titlePress", "setHeaderExpanded", "log", "headerHidden", "snapRequested"} /\ Init

SpecCommand == InitCommand /\ [][NextUse]_vars

\* records the resizes, the presses of the pin button and whether the pin
\* button is shown
InitResize == probe = {"resize", "pinUnpinPress", "showPinBtn"} /\ Init

SpecResize == InitResize /\ [][NextUse]_vars

(***************************************************************************)
(* The two header transitions called on their own, with either argument,   *)
(* in any state the use of the page leads to.  The history names the call  *)
(* and its argument; a _snapHeader(true) that comes right after an         *)
(* _expandHeader(true) is named as the round trip it completes, and an     *)
(* _expandHeader that repeats the call before it is named as the second.   *)
(***************************************************************************)
SnapHeader ==
    /\ \E bAppendHeaderToContent \in BOOLEAN :
           /\ Apply(_snapHeader(Cur, bAppendHeaderToContent))
           /\ op' = IF bAppendHeaderToContent
                    THEN IF op = "_expandHeader(true)"
                         THEN "_expandHeader(true);_snapHeader(true)"
                         ELSE "_snapHeader(true)"
                    ELSE "_snapHeader(false)"
    /\ snapRequested' = FALSE
    /\ chain' = [dispatched |-> 0, written |-> 0]
    /\ UNCHANGED <<config, geometry>>

ExpandHeader ==
    /\ \E bAppendHeaderToTitle \in BOOLEAN :
           /\ Apply(_expandHeader(Cur, bAppendHeaderToTitle))
           /\ op' = IF bAppendHeaderToTitle
                    THEN IF op \in {"_expandHeader(true)", "_expandHeader(true) twice"}
                         THEN "_expandHeader(true) twice"
                         ELSE "_expandHeader(true)"
                    ELSE IF op \in {"_expandHeader(false)", "_expandHeader(false) twice"}
                         THEN "_expandHeader(false) twice"
                         ELSE "_expandHeader(false)"
    /\ snapRequested' = FALSE
    /\ chain' = [dispatched |-> 0, written |-> 0]
    /\ UNCHANGED <<config, geometry>>

NextHeader ==
    \/ Render
    \/ SetHeaderExpanded
    \/ TitlePress
    \/ PinUnpinButtonPress
    \/ Resize
    \/ ContentChange
    \/ SnapHeader
    \/ ExpandHeader

\* records the parts of the title that are shown, the class of the title area
\* and the log
InitHeader == probe = {"titleContent", "titleSnapped", "log"} /\ Init

SpecHeader == InitHeader /\ [][NextHeader]_vars

(***************************************************************************)
(* One scroll of the user at a time: the user scrolls the content or drags *)
(* the ScrollBar only when no scroll event is pending, so that every chain *)
(* of scroll events starts from a single scroll of the user.               *)
(***************************************************************************)
AtRest == ~wrapperScrollPending /\ ~scrollBarScrollPending

UserScrollWrapperAtRest == AtRest /\ UserScrollWrapper

UserScrollBarAtRest == AtRest /\ UserScrollBar

NextEcho ==
    \/ Render
    \/ PinUnpinButtonPress
    \/ UserScrollWrapperAtRest
    \/ UserScrollBarAtRest
    \/ OnWrapperScroll
    \/ OnScrollBarScroll

\* records the chain of scroll events
InitEcho == probe = {"chain"} /\ Init

SpecEcho == InitEcho /\ [][NextEcho]_vars

(***************************************************************************)
(* The life of a page: renderings, re-renderings of its children, resizes  *)
(* of the page and of its children, and its destruction, after which only  *)
(* the zero-delay callbacks already scheduled still run.                   *)
(***************************************************************************)
NextLifecycle ==
    \/ ~destroyed /\ Render
    \/ ~destroyed /\ ChildControlAfterRendering
    \/ ~destroyed /\ ChildControlsHeightChange
    \/ ~destroyed /\ Resize
    \/ RunTimer
    \/ Exit

\* records the resize handlers and the destruction
InitLifecycle == probe = {"resizeHandlers", "exit"} /\ Init

SpecLifecycle == InitLifecycle /\ [][NextLifecycle]_vars

\* records the resizes of the children and the scroll dispatches
\* the headerAlwaysExpanded setting changed while the page is in use
NextAlways ==
    \/ Render
    \/ SetHeaderAlwaysExpanded
    \/ SetHeaderExpanded
    \/ PinUnpinButtonPress
    \/ Resize
    \/ RunTimer

InitAlways == probe = {"setHeaderAlwaysExpanded", "titleSnapped"} /\ Init

SpecAlways == InitAlways /\ [][NextAlways]_vars

\* the footer shown and hidden, with its delayed callbacks
NextFooter ==
    \/ Render
    \/ SetShowFooter
    \/ RunFooterTimer
    \/ RunTimer

InitFooter == probe = {"footer", "setShowFooter", "footerTimer"} /\ Init

SpecFooter == InitFooter /\ [][NextFooter]_vars

\* the control rendered and resized to the widths around the break points
NextMedia ==
    \/ Render
    \/ Resize
    \/ RunTimer

InitMedia == probe = {"media", "resize", "render"} /\ Init

SpecMedia == InitMedia /\ [][NextMedia]_vars

\* the measured lengths: taller headers and controls, and a wrapper whose
\* height is not a whole number of pixels
NextMeasure ==
    \/ Render
    \/ Resize
    \/ ContentChange
    \/ TitlePress
    \/ RunTimer

InitMeasure == probe = {"measure", "resize", "showPinBtn"} /\ Init

SpecMeasure == InitMeasure /\ [][NextMeasure]_vars

InitHeight == probe = {"heightChange", "wrapperScroll", "scrollBarScroll"} /\ Init

SpecHeight == InitHeight /\ [][NextUse]_vars

(***************************************************************************)
(* Claims.                                                                 *)
(***************************************************************************)
\* C1: in every reachable state, a pinned header is in the title area
\* (bPinned implies bHeaderInTitleArea).
C1_PinnedHeaderInTitleArea == bPinned => bHeaderInTitleArea

\* C2, as stated: in every reachable state, if the headerAlwaysExpanded property
\* is true and the header does not exceed the allowed height, the header is
\* expanded.
C2_AlwaysExpandedIsExpanded ==
    (headerAlwaysExpanded /\ ~headerBiggerThanAllowedHeight) => headerExpanded

\* C2, amended: while headerAlwaysExpanded is in effect, only a command (a
\* title press or setHeaderExpanded) takes the header from expanded to
\* snapped; no scroll event, resize, rendering or deferred callback does.
\* And setHeaderAlwaysExpanded(true) leaves the header expanded.
C2_OnlyACommandSnapsWhenAlwaysExpanded ==
    [][ /\ (_headerAlwaysExpanded(Cur) /\ headerExpanded /\ ~headerExpanded')
            => (TitlePress \/ SetHeaderExpanded)
        /\ (~headerAlwaysExpanded /\ headerAlwaysExpanded') => headerExpanded'
      ]_vars

\* a page whose header is always expanded has been scrolled past the snapping
\* height and its header is still expanded
C2_Witness ==
    /\ _headerAlwaysExpanded(Cur)
    /\ rendered
    /\ headerExpanded
    /\ ~bPinned
    /\ ~wrapperScrollPending /\ ~scrollBarScrollPending
    /\ hasTitle /\ hasHeader /\ headerHeight > 0
    /\ _getScrollPosition(Cur) > _getSnappingHeight(Cur)
    /\ wrapperScrollTop = _getScrollPosition(Cur)

\* C3: while the header is pinned, a scroll event of the wrapper or of the
\* ScrollBar, at any scroll offset, changes neither headerExpanded nor the
\* area the header is in.
C3_PinnedScrollKeepsHeader ==
    [][ (bPinned /\ (OnWrapperScroll \/ OnScrollBarScroll))
            => /\ headerExpanded' = headerExpanded
               /\ bHeaderInTitleArea' = bHeaderInTitleArea
      ]_vars

\* a scroll event was handled with the header pinned, expanded and scrolled
\* past the snapping height, where an unpinned header would have snapped
C3_Witness ==
    /\ op \in {"wrapperScroll", "scrollBarScroll"}
    /\ bPinned
    /\ bHeaderInTitleArea
    /\ headerExpanded
    /\ ~_headerAlwaysExpanded(Cur)
    /\ _getSnappingHeight(Cur) > 0
    /\ _getScrollPosition(Cur) > _getSnappingHeight(Cur)

\* C4: while the header is pinned, a command (a title press, or
\* setHeaderExpanded with a differing value) never changes headerExpanded,
\* whatever the scroll position, the scrollability of the content and the
\* current value of headerExpanded.
C4_PinnedCommandKeepsExpanded ==
    [][ (bPinned /\ (TitlePress \/ SetHeaderExpanded))
            => headerExpanded' = headerExpanded
      ]_vars

\* C5: on a scroll evaluation the header snaps (headerExpanded becomes false,
\* the title area gets the snapped class, the header is moved to the content
\* area) exactly when headerAlwaysExpanded is not in effect, the scroll
\* position is past the snapping height, the header is expanded and not
\* pinned; otherwise it expands exactly when headerAlwaysExpanded is not in
\* effect, the scroll position is before the snapping height, the header is
\* snapped and not pinned; at the snapping height itself neither happens.
\* In particular the evaluation at snapping height + 1 of an expanded,
\* unpinned header that is not always expanded ends with headerExpanded false.
C5_ScrollEvaluation ==
    [][ (OnScrollBarScroll \/ (OnWrapperScroll /\ (~desktop \/ ~bExpandingWithAClick)))
        => LET iPos == _getScrollPosition(Cur)
               iSnap == _getSnappingHeight(Cur)
               bEffective == headerAlwaysExpanded /\ ~headerBiggerThanAllowedHeight
               bSnap == ~bEffective /\ iPos > iSnap /\ headerExpanded /\ ~bPinned
               bExpand == ~bEffective /\ iPos < iSnap /\ ~headerExpanded /\ ~bPinned
           IN  /\ bSnap => (~headerExpanded' /\ titleSnapped' /\ ~bHeaderInTitleArea')
               /\ ~bSnap => ~(headerExpanded /\ ~headerExpanded')
               /\ bExpand => (headerExpanded' /\ ~titleSnapped')
               /\ ~bExpand => ~(~headerExpanded /\ headerExpanded')
               /\ iPos = iSnap => headerExpanded' = headerExpanded
               /\ (iPos = iSnap + 1 /\ headerExpanded /\ ~bPinned /\ ~headerAlwaysExpanded)
                      => ~headerExpanded'
      ]_vars

\* C6: once _headerBiggerThanAllowedHeight is true it never becomes false
\* again, under every interleaving of renderings, pending override callbacks,
\* property changes and scroll, resize and press events.
C6_OverrideIsOneWay ==
    [][headerBiggerThanAllowedHeight => headerBiggerThanAllowedHeight']_vars

\* C7: on a non-desktop device, when headerAlwaysExpanded is configured true
\* and the title and the header together exceed 0.6 of the control's height,
\* the deferred check of the first layout (run with the flag still unset)
\* sets _headerBiggerThanAllowedHeight and leaves the header in the content
\* area, with the headerAlwaysExpanded property still true; on desktop the
\* flag is never set.
C7_FirstLayoutOverride ==
    /\ [](desktop => ~headerBiggerThanAllowedHeight)
    /\ [][ ( /\ timers # <<>>
             /\ Head(timers) = "_overrideHeaderAlwaysExpanded"
             /\ RunTimer
             /\ ~desktop
             /\ headerAlwaysExpanded
             /\ ~headerBiggerThanAllowedHeight
             /\ 10 * _getEntireHeaderHeight(Cur) > 6 * _getOwnHeight(Cur) )
            => /\ headerBiggerThanAllowedHeight'
               /\ ~bHeaderInTitleArea'
               /\ headerAlwaysExpanded'
        ]_vars

\* the check has overridden headerAlwaysExpanded: the flag is set and the
\* header is in the content area while the property is still true
C7_Witness ==
    /\ ~desktop
    /\ headerAlwaysExpanded
    /\ headerBiggerThanAllowedHeight
    /\ ~bHeaderInTitleArea
    /\ 10 * (titleHeight + headerHeight) > 6 * ownHeight

\* C8: a command (a title press, or setHeaderExpanded with a differing value)
\* issued while the title and the header together are higher than the control
\* changes no state at all (headerExpanded, the pin, the area of the header,
\* _bExpandingWithAClick, the scroll positions, ...) and logs a warning.
C8_TooTallCommandAborts ==
    [][ ( /\ op' \in {"titlePress", "setHeaderExpanded"}
          /\ _getEntireHeaderHeight(Cur) > _getOwnHeight(Cur) )
        => /\ UNCHANGED <<headerAlwaysExpanded, headerExpanded, bPinned, bHeaderInTitleArea,
                          bExpandingWithAClick, headerBiggerThanAllowedHeight,
                          bAlreadyAttachedPinPressHandler, rendered, allowInnerDiv,
                          allowCustomScroll, headerHidden, wrapperScrollTop,
                          scrollBarPosition, wrapperScrollPending,
                          scrollBarScrollPending, timers>>
           /\ log' = "couldn't expand header. There isn't enough space for it to fit on the screen"
      ]_vars

\* a command was refused on a page whose title and header are higher than
\* the page
C8_Witness ==
    /\ op \in {"titlePress", "setHeaderExpanded"}
    /\ rendered
    /\ titleHeight + headerHeight > ownHeight
    /\ log = "couldn't expand header. There isn't enough space for it to fit on the screen"

\* C9, as stated: a command issued with the header expanded, snapping allowed,
\* a vertical scroll needed, the scroll position not past the snapping height
\* and enough content to snap by scrolling writes the scroll position
\* snapping height + 1 and leaves headerExpanded unchanged; once the scroll
\* events it causes are handled, headerExpanded is false.
C9_CommandSnapsByScrolling ==
    /\ []((snapRequested /\ ~wrapperScrollPending /\ ~scrollBarScrollPending)
              => ~headerExpanded)
    /\ [][ (op' \in {"titlePress", "setHeaderExpanded"} /\ IssuedToSnapByScroll)
            => /\ wrapperScrollTop' = _getSnappingHeight(Cur) + 1
               /\ desktop => scrollBarPosition' = _getSnappingHeight(Cur) + 1
               /\ headerExpanded' = headerExpanded
        ]_vars

\* C9, amended: the same, for a header that fits in the control (the title
\* and the header together are not higher than the control).
C9_FittingCommandSnapsByScrolling ==
    /\ []((/\ snapRequested
           /\ titleHeight + headerHeight <= ownHeight
           /\ ~wrapperScrollPending /\ ~scrollBarScrollPending)
              => ~headerExpanded)
    /\ [][ ( /\ op' \in {"titlePress", "setHeaderExpanded"}
             /\ IssuedToSnapByScroll
             /\ titleHeight + headerHeight <= ownHeight )
            => /\ wrapperScrollTop' = _getSnappingHeight(Cur) + 1
               /\ desktop => scrollBarPosition' = _getSnappingHeight(Cur) + 1
               /\ headerExpanded' = headerExpanded
        ]_vars

\* the scroll events of such a command have been handled and the header is
\* snapped at the position the command wrote
C9_Witness ==
    /\ snapRequested
    /\ titleHeight + headerHeight <= ownHeight
    /\ ~wrapperScrollPending /\ ~scrollBarScrollPending
    /\ ~headerExpanded
    /\ wrapperScrollTop = _getSnappingHeight(Cur) + 1

\* C10, as stated: a command issued while headerAlwaysExpanded is in effect or no
\* vertical scroll is needed, with the header not pinned and fitting in the
\* control, flips headerExpanded, leaves the header in its area, writes no
\* scroll position, and the header has the hidden class exactly when the
\* resulting state is snapped.
C10_CommandTogglesVisibility ==
    [][ ( /\ op' \in {"titlePress", "setHeaderExpanded"}
          /\ (_headerAlwaysExpanded(Cur) \/ _getMaxScrollPosition(Cur) <= 0)
          /\ ~bPinned
          /\ ~(_getEntireHeaderHeight(Cur) > _getOwnHeight(Cur)) )
        => /\ headerExpanded' = ~headerExpanded
           /\ bHeaderInTitleArea' = bHeaderInTitleArea
           /\ wrapperScrollTop' = wrapperScrollTop
           /\ scrollBarPosition' = scrollBarPosition
           /\ hasHeader => (headerHidden' <=> ~headerExpanded')
      ]_vars

\* C10, amended: the same, for a control that has been rendered (before the
\* first rendering there is no title area, and the command only logs a
\* warning).
C10_RenderedCommandTogglesVisibility ==
    [][ ( /\ op' \in {"titlePress", "setHeaderExpanded"}
          /\ rendered
          /\ (_headerAlwaysExpanded(Cur) \/ _getMaxScrollPosition(Cur) <= 0)
          /\ ~bPinned
          /\ ~(_getEntireHeaderHeight(Cur) > _getOwnHeight(Cur)) )
        => /\ headerExpanded' = ~headerExpanded
           /\ bHeaderInTitleArea' = bHeaderInTitleArea
           /\ wrapperScrollTop' = wrapperScrollTop
           /\ scrollBarPosition' = scrollBarPosition
           /\ hasHeader => (headerHidden' <=> ~headerExpanded')
      ]_vars

\* a command has snapped the always expanded header of a scrollable page in
\* place, and the header is hidden
C10_Witness ==
    /\ op \in {"titlePress", "setHeaderExpanded"}
    /\ rendered
    /\ hasHeader
    /\ _headerAlwaysExpanded(Cur)
    /\ _getMaxScrollPosition(Cur) > 0
    /\ ~bPinned
    /\ ~headerExpanded
    /\ headerHidden

\* C11: a command issued with the header snapped, a vertical scroll needed and
\* headerAlwaysExpanded not in effect sets bExpandingWithAClick and
\* headerExpanded and moves the header into the title area; a command issued
\* with the header expanded, snapping allowed and the scroll position past the
\* snapping height snaps at once: headerExpanded is false and the header is in
\* the content area.  Stated for a page that has a header and whose title and
\* header fit in the control, where the command gets past its first test.
C11_CommandExpandsOrSnapsAtOnce ==
    [][ ( /\ op' \in {"titlePress", "setHeaderExpanded"}
          /\ hasHeader
          /\ ~(_getEntireHeaderHeight(Cur) > _getOwnHeight(Cur)) )
        => /\ ( /\ ~headerExpanded
                /\ _needsVerticalScrollBar(Cur)
                /\ ~_headerAlwaysExpanded(Cur) )
              => /\ bExpandingWithAClick'
                 /\ headerExpanded'
                 /\ bHeaderInTitleArea'
           /\ ( /\ headerExpanded
                /\ _headerSnapAllowed(Cur)
                /\ _getScrollPosition(Cur) > _getSnappingHeight(Cur) )
              => /\ ~headerExpanded'
                 /\ ~bHeaderInTitleArea'
      ]_vars

\* C12: a command issued with the header expanded, snapping allowed, a vertical
\* scroll needed, the scroll position not past the snapping height and not
\* enough content to snap by scrolling (maximum scroll position <= snapping
\* height + 1) logs a warning and changes nothing: headerExpanded,
\* bHeaderInTitleArea, bPinned and the scroll position are as before.  When the
\* header fits in the control the warning is the one of the missing content.
C12_CommandWithoutContentAborts ==
    [][ ( /\ op' \in {"titlePress", "setHeaderExpanded"}
          /\ headerExpanded
          /\ ~_headerAlwaysExpanded(Cur) /\ ~bPinned
          /\ _getMaxScrollPosition(Cur) > 0
          /\ ~(_getScrollPosition(Cur) > _getSnappingHeight(Cur))
          /\ _getMaxScrollPosition(Cur) <= _getSnappingHeight(Cur) + 1 )
        => /\ log' # "none"
           /\ ~(_getEntireHeaderHeight(Cur) > _getOwnHeight(Cur))
                => log' = "couldn't snap header. There isn't enough content to be scrolled"
           /\ headerExpanded' = headerExpanded
           /\ bHeaderInTitleArea' = bHeaderInTitleArea
           /\ bPinned' = bPinned
           /\ wrapperScrollTop' = wrapperScrollTop
           /\ scrollBarPosition' = scrollBarPosition
           /\ UNCHANGED <<bExpandingWithAClick, headerHidden, snapRequested,
                          wrapperScrollPending, scrollBarScrollPending>>
      ]_vars

\* a command has just been refused for want of content to scroll, on a page
\* whose header has a height and is still expanded
C12_Witness ==
    /\ op \in {"titlePress", "setHeaderExpanded"}
    /\ log = "couldn't snap header. There isn't enough content to be scrolled"
    /\ headerExpanded
    /\ headerHeight > 0
    /\ _getMaxScrollPosition(Cur) = _getSnappingHeight(Cur) + 1

\* C13: a resize to the height h, with headerAlwaysExpanded not in effect and a
\* header present: if the title and the header together are higher than 0.6*h
\* or the device is a phone, then afterwards bPinned is false and the pin
\* button is hidden; otherwise the pin button is shown and bPinned is
\* unchanged.  With headerAlwaysExpanded in effect or without a header the
\* resize leaves bPinned and the pin button as they were.
C13_ResizeAndPin ==
    [][ op' = "resize"
        => IF ~(headerAlwaysExpanded /\ ~headerBiggerThanAllowedHeight) /\ hasHeader
           THEN IF 10 * (titleHeight + headerHeight) > 6 * ownHeight' \/ phone
                THEN ~bPinned' /\ ~showPinBtn'
                ELSE showPinBtn' /\ bPinned' = bPinned
           ELSE bPinned' = bPinned /\ showPinBtn' = showPinBtn
      ]_vars

\* a resize has made the control too low for the header that was pinned: the
\* header is unpinned, still in the title area, and the pin button is hidden
C13_Witness ==
    /\ op = "resize"
    /\ hasHeader /\ ~phone
    /\ ~(headerAlwaysExpanded /\ ~headerBiggerThanAllowedHeight)
    /\ 10 * (titleHeight + headerHeight) > 6 * ownHeight
    /\ bHeaderInTitleArea
    /\ ~bPinned
    /\ ~showPinBtn

\* C14: _pin changes nothing when the header is pinned and otherwise sets
\* bPinned and bHeaderInTitleArea; _unPin clears bPinned and in every case
\* leaves bHeaderInTitleArea and headerExpanded as they were; a press of the
\* pin button toggles bPinned, by _pin when the header was not pinned and by
\* _unPin when it was.
C14_PinAndUnpin ==
    /\ [](/\ bPinned => _pin(Cur) = Cur
          /\ (~bPinned /\ hasHeader)
                => /\ _pin(Cur).bPinned
                   /\ _pin(Cur).bHeaderInTitleArea
                   /\ _pin(Cur).headerExpanded = headerExpanded
          /\ ~bPinned => _unPin(Cur) = Cur
          /\ bPinned => _unPin(Cur) = [Cur EXCEPT !.bPinned = FALSE])
    /\ [][ op' = "pinUnpinPress"
            => /\ bPinned' = ~bPinned
               /\ bPinned' => bHeaderInTitleArea'
               /\ ~bPinned' => bHeaderInTitleArea' = bHeaderInTitleArea
               /\ headerExpanded' = headerExpanded
         ]_vars

\* a press has just unpinned a snapped header, which stays in the title area
C14_Witness ==
    /\ op = "pinUnpinPress"
    /\ hasHeader
    /\ ~bPinned
    /\ bHeaderInTitleArea
    /\ ~headerExpanded

\* C15: _snapHeader called while the header is pinned changes nothing
\* (headerExpanded, bHeaderInTitleArea, the shown parts of the title and the
\* snapped class are as before); called while it is not pinned, with a title
\* and the title area present, it ends with headerExpanded false and the
\* snapped class on the title area, and it moves the header to the content
\* area only when its argument is true.
C15_SnapHeader ==
    [][ \A b \in BOOLEAN :
          op' \in (IF b THEN {"_snapHeader(true)", "_expandHeader(true);_snapHeader(true)"}
                        ELSE {"_snapHeader(false)"})
          => /\ bPinned
                => UNCHANGED <<headerExpanded, bHeaderInTitleArea, showExpandContent,
                               showSnapContent, titleSnapped>>
             /\ (~bPinned /\ hasTitle /\ rendered)
                => /\ ~headerExpanded'
                   /\ titleSnapped'
                   /\ IF b THEN hasHeader => ~bHeaderInTitleArea'
                           ELSE bHeaderInTitleArea' = bHeaderInTitleArea
      ]_vars

\* _snapHeader(false) has snapped an unpinned header that was in the title
\* area, and left it there
C15_Witness ==
    /\ op = "_snapHeader(false)"
    /\ hasTitle /\ hasHeader /\ rendered
    /\ ~bPinned
    /\ bHeaderInTitleArea
    /\ ~headerExpanded
    /\ titleSnapped

\* _snapHeader has been called on a pinned and expanded header
C15_WitnessPinned ==
    /\ op \in {"_snapHeader(false)", "_snapHeader(true)"}
    /\ bPinned
    /\ headerExpanded
    /\ ~titleSnapped

\* C16, as stated: for an unpinned page with a title and a header,
\* _expandHeader(true) followed by _snapHeader(true) ends with the header in
\* the content area, headerExpanded false and the snapped class on the title
\* area; between the two calls headerExpanded is true, the header is in the
\* title area and the snapped class is absent.
C16_RoundTrip ==
    (~bPinned /\ hasTitle /\ hasHeader)
    => /\ op = "_expandHeader(true)"
          => headerExpanded /\ bHeaderInTitleArea /\ ~titleSnapped
       /\ op = "_expandHeader(true);_snapHeader(true)"
          => ~headerExpanded /\ ~bHeaderInTitleArea /\ titleSnapped

\* C16, amended: the same, for a page that has been rendered, whose title area
\* exists.
C16_RenderedRoundTrip ==
    (~bPinned /\ hasTitle /\ hasHeader /\ rendered)
    => /\ op = "_expandHeader(true)"
          => headerExpanded /\ bHeaderInTitleArea /\ ~titleSnapped
       /\ op = "_expandHeader(true);_snapHeader(true)"
          => ~headerExpanded /\ ~bHeaderInTitleArea /\ titleSnapped

\* the round trip has been made on a rendered page with a title and a header
C16_Witness ==
    /\ op = "_expandHeader(true);_snapHeader(true)"
    /\ ~bPinned /\ hasTitle /\ hasHeader /\ rendered
    /\ ~headerExpanded /\ ~bHeaderInTitleArea /\ titleSnapped

\* the calls of _expandHeader, first or repeated
ExpandHeaderCalls ==
    {"_expandHeader(false)", "_expandHeader(true)",
     "_expandHeader(false) twice", "_expandHeader(true) twice"}

\* C17, as stated: _expandHeader called when headerExpanded is already true
\* leaves headerExpanded, the snapped class, the shown parts of the title and
\* the area of the header exactly as they were; and _expandHeader applied
\* twice gives the state that _expandHeader applied once gives.
C17_ExpandIsIdempotent ==
    /\ [](\A b \in BOOLEAN :
             _expandHeader(_expandHeader(Cur, b), b) = _expandHeader(Cur, b))
    /\ [][ (op' \in ExpandHeaderCalls /\ headerExpanded)
            => UNCHANGED <<headerExpanded, titleSnapped, showExpandContent,
                           showSnapContent, bHeaderInTitleArea>>
         ]_vars

\* C17, amended: _expandHeader called right after a call of _expandHeader with
\* the same argument leaves headerExpanded, the snapped class, the shown parts
\* of the title and the area of the header exactly as they were; and
\* _expandHeader applied twice gives the state that _expandHeader applied once
\* gives.
C17_RepeatedExpandChangesNothing ==
    /\ [](\A b \in BOOLEAN :
             _expandHeader(_expandHeader(Cur, b), b) = _expandHeader(Cur, b))
    /\ [][ op' \in {"_expandHeader(false) twice", "_expandHeader(true) twice"}
            => UNCHANGED <<headerExpanded, titleSnapped, showExpandContent,
                           showSnapContent, bHeaderInTitleArea>>
         ]_vars

\* _expandHeader(true) has been called twice in a row on a rendered page, and
\* the header is expanded in the title area
C17_Witness ==
    /\ op = "_expandHeader(true) twice"
    /\ hasTitle /\ hasHeader /\ rendered
    /\ headerExpanded /\ bHeaderInTitleArea /\ ~titleSnapped
    /\ showExpandContent /\ ~showSnapContent

\* C18: when _snapHeader or _expandHeader aborts with the warning that there
\* is no title, with either argument, it leaves the state as it was:
\* headerExpanded, bHeaderInTitleArea and the shown parts of the title have
\* the values they had before the call.
C18_AbortChangesNothing ==
    [][ ( /\ op' \in ExpandHeaderCalls
                     \cup {"_snapHeader(false)", "_snapHeader(true)",
                           "_expandHeader(true);_snapHeader(true)"}
          /\ log' \in {"couldn't snap header. There's no title.",
                       "couldn't expand header. There's no title."} )
        => UNCHANGED <<headerExpanded, bHeaderInTitleArea, showExpandContent,
                       showSnapContent>>
      ]_vars

\* C19: on desktop, in every reachable state at most one of the two flags
\* allowInnerDiv and allowCustomScroll is set, for every interleaving of the
\* scroll events of the wrapper and of the ScrollBar, the wrapper scroll
\* events at scrollTop 0 and the writes that dispatch no scroll event
\* included.
C19_AtMostOneFlagArmed == desktop => ~(allowInnerDiv /\ allowCustomScroll)

\* C20: on desktop, a single scroll of the user, of the wrapper or of the
\* ScrollBar, makes the handlers write the scroll position of the other
\* element at most once, and that write is not written back; the chain of
\* scroll events ends, with no scroll event pending, after the event of the
\* user and the one of the echo.
C20_OneEchoAndRest ==
    desktop => /\ chain.written <= 1
               /\ chain.dispatched <= 2
               /\ chain.dispatched = 2 => AtRest

\* the part of C20 that is about termination: no chain of scroll events is
\* longer than two events, and after two no scroll event is pending
C20_ChainEnds ==
    desktop => /\ chain.dispatched <= 2
               /\ chain.dispatched = 2 => AtRest

\* C21: on desktop, whenever no scroll event is pending, the scroll offset of
\* the wrapper equals the position of the ScrollBar: every scroll of the user
\* on one of the two is reflected to the other, after any sequence of earlier
\* scrolls.
C21_ScrollSourcesAgree ==
    (desktop /\ rendered /\ AtRest) => wrapperScrollTop = scrollBarPosition

NeitherSnapNorExpand ==
    LET bScroll == ~(headerAlwaysExpanded /\ ~headerBiggerThanAllowedHeight) /\ ~bPinned
        iPos == IF desktop THEN scrollBarPosition ELSE wrapperScrollTop
        iSnap == _getSnappingHeight(Cur)
    IN  /\ ~(bScroll /\ headerExpanded /\ iPos > iSnap)
        /\ ~(bScroll /\ ~headerExpanded /\ iPos < iSnap)

\* C23: a scroll evaluation made when neither the condition to snap nor the
\* condition to expand holds moves the header to the content area
\* (bHeaderInTitleArea becomes false) and leaves headerExpanded unchanged if
\* the header is not pinned and is in the title area, and changes nothing in
\* every other such case.  A scroll evaluation never changes bPinned.
C23_ScrollEvaluationCleanup ==
    /\ [](/\ _toggleHeader(Cur).bPinned = bPinned
          /\ NeitherSnapNorExpand
                => _toggleHeader(Cur) = IF ~bPinned /\ bHeaderInTitleArea
                                        THEN [Cur EXCEPT !.bHeaderInTitleArea = FALSE]
                                        ELSE Cur)
    /\ [][ op' \in {"wrapperScroll", "scrollBarScroll"}
            => /\ bPinned' = bPinned
               /\ (op' = "scrollBarScroll" /\ NeitherSnapNorExpand)
                     => /\ headerExpanded' = headerExpanded
                        /\ titleSnapped' = titleSnapped
                        /\ bHeaderInTitleArea' = (bPinned /\ bHeaderInTitleArea)
         ]_vars

\* the scroll event of the ScrollBar that followed a command to expand has
\* been handled: the header, which the command had put in the title area, is
\* expanded in the content area
C23_Witness ==
    /\ op = "scrollBarScroll"
    /\ hasTitle /\ hasHeader
    /\ bExpandingWithAClick
    /\ headerExpanded
    /\ ~bPinned
    /\ ~bHeaderInTitleArea

\* C24: after any resize event of a child (the title or the content fit
\* container) bExpandingWithAClick is false; and when the event arrives while
\* bExpandingWithAClick is true the update of the ScrollBar is skipped, so the
\* event changes neither headerExpanded nor bHeaderInTitleArea.
C24_HeightChangeClearsFlag ==
    [][ op' = "heightChange"
        => /\ ~bExpandingWithAClick'
           /\ bExpandingWithAClick
                => UNCHANGED <<headerExpanded, bHeaderInTitleArea, bPinned,
                               wrapperScrollTop, scrollBarPosition>>
      ]_vars

\* a resize event of a child has cleared the flag of a header that a command
\* expanded into the title area, on desktop, where an update of the ScrollBar
\* would have moved the header to the content area
C24_Witness ==
    /\ op = "heightChange"
    /\ desktop /\ hasTitle /\ hasHeader
    /\ ~bExpandingWithAClick
    /\ headerExpanded /\ bHeaderInTitleArea /\ ~bPinned
    /\ ~_headerAlwaysExpanded(Cur)
    /\ _canSnapHeaderOnScroll(Cur)

\* C25: a scroll event of the wrapper makes the snap / expand evaluation
\* always on a device that is not a desktop, and on desktop exactly when
\* bExpandingWithAClick is false; a scroll event of the ScrollBar always makes
\* it.  Hence on desktop, after a command has expanded the header, the scroll
\* events of the wrapper do not snap it as long as no resize event of a child
\* has cleared bExpandingWithAClick, which nothing else clears.
C25_WhoEvaluates ==
    /\ [][ op' = "wrapperScroll"
            => LET e == IF ~desktop \/ ~bExpandingWithAClick
                        THEN _toggleHeader(Cur) ELSE Cur
               IN  /\ headerExpanded' = e.headerExpanded
                   /\ bHeaderInTitleArea' = e.bHeaderInTitleArea
         ]_vars
    /\ [][ op' = "scrollBarScroll"
            => /\ headerExpanded' = _toggleHeader(Cur).headerExpanded
               /\ bHeaderInTitleArea' = _toggleHeader(Cur).bHeaderInTitleArea
         ]_vars
    /\ [][ (op' = "wrapperScroll" /\ desktop /\ bExpandingWithAClick)
            => headerExpanded' = headerExpanded
         ]_vars
    /\ [][ (bExpandingWithAClick /\ ~bExpandingWithAClick') => op' = "heightChange" ]_vars

\* on desktop a scroll event of the wrapper has been handled while a command
\* was expanding the header: the header is still expanded, although the
\* ScrollBar is past the snapping height
C25_Witness ==
    /\ op = "wrapperScroll"
    /\ desktop /\ hasTitle /\ hasHeader
    /\ bExpandingWithAClick
    /\ headerExpanded /\ ~bPinned
    /\ ~_headerAlwaysExpanded(Cur)
    /\ scrollBarPosition > _getSnappingHeight(Cur)

\* C26: an update of the ScrollBar (by a resize, a pin, a re-rendering or a
\* resize of a child) leaves headerExpanded and bHeaderInTitleArea unchanged
\* at every scroll position, the positions at or past the snapping height
\* with the header expanded and not pinned included; on a device that is not
\* a desktop the update changes nothing at all.
C26_UpdateScrollBarKeepsHeader ==
    /\ [](~desktop => _updateScrollBar(Cur) = Cur)
    /\ [][ op' = "resize"
            => /\ headerExpanded' = headerExpanded
               /\ bHeaderInTitleArea' = bHeaderInTitleArea
         ]_vars

\* the part of C26 about the devices that are not desktops
C26_NothingOffDesktop == ~desktop => _updateScrollBar(Cur) = Cur

\* C27: maxScrollPosition is the wrapper's scroll height minus its visible
\* height rounded up, it is never negative whatever the two heights are, and
\* it is 0 while the wrapper does not exist (before the first rendering)
C27_MaxScrollPosition ==
    /\ rendered => _getMaxScrollPosition(Cur) = scrollHeight - Ceil4(clientHeight4)
    /\ ~rendered => _getMaxScrollPosition(Cur) = 0
    /\ _getMaxScrollPosition(Cur) >= 0

\* the two parts of C27 that do not depend on the sign
C27_DifferenceOrZero ==
    _getMaxScrollPosition(Cur)
        = IF rendered THEN scrollHeight - Ceil4(clientHeight4) ELSE 0
\* the heights as the page shows them: a title or header that does not exist
\* has height 0, and nothing has a height before the first rendering
CombinedHeight ==
    IF rendered
    THEN (IF hasTitle THEN titleHeight ELSE 0) + (IF hasHeader THEN headerHeight ELSE 0)
    ELSE 0

ControlHeight == IF rendered THEN ownHeight ELSE 0

\* C28: the header is too tall to pin, or to be fixed, exactly when the
\* combined height of title and header is strictly greater than 0.6 times
\* the reference height: the given height for the pin check (the control's
\* own height when the argument is not a number), the control's own height
\* for the fix check; exactly 60% is not too tall
C28_TooTallIsStrictlyOverSixtyPercent ==
    /\ \A h \in OwnHeights :
           /\ _headerBiggerThanAllowedToPin(Cur, h) <=> (10 * CombinedHeight > 6 * h)
           /\ 10 * CombinedHeight = 6 * h => ~_headerBiggerThanAllowedToPin(Cur, h)
    /\ _headerBiggerThanAllowedToPin(Cur, NaN)
           <=> (10 * CombinedHeight > 6 * ControlHeight)
    /\ _headerBiggerThanAllowedToBeFixed(Cur)
           <=> (10 * CombinedHeight > 6 * ControlHeight)
    /\ 10 * CombinedHeight = 6 * ControlHeight => ~_headerBiggerThanAllowedToBeFixed(Cur)

\* a resize to a height of which title and header take exactly 60% has left
\* the pin button available
C28_Witness ==
    /\ op = "resize"
    /\ hasTitle /\ hasHeader /\ ~phone /\ ~headerAlwaysExpanded
    /\ CombinedHeight > 0
    /\ 10 * CombinedHeight = 6 * ownHeight
    /\ showPinBtn
\* C29: the snapping height is the header's height when that is greater
\* than 0; otherwise (no header, or a header of height 0) it is the title's
\* height, which is 0 when there is no title
C29_SnappingHeight ==
    LET iHeader == IF rendered /\ hasHeader THEN headerHeight ELSE 0
        iTitle == IF rendered /\ hasTitle THEN titleHeight ELSE 0
    IN  /\ iHeader > 0 => _getSnappingHeight(Cur) = iHeader
        /\ ~(iHeader > 0) => _getSnappingHeight(Cur) = iTitle
        /\ ~(iHeader > 0) /\ ~hasTitle => _getSnappingHeight(Cur) = 0

\* a title press has scrolled a page whose header has height 0 to one pixel
\* past the title's height
C29_Witness ==
    /\ rendered /\ hasTitle /\ hasHeader
    /\ headerHeight = 0
    /\ wrapperScrollTop = titleHeight + 1
\* C30: setHeaderAlwaysExpanded(true) leaves headerExpanded true whatever it
\* was; setHeaderAlwaysExpanded(false) leaves headerExpanded as it was;
\* neither changes the pinned state, whether the header is in the title
\* area, or whether the header exceeds the allowed height
C30_SetHeaderAlwaysExpanded ==
    [][op' = "setHeaderAlwaysExpanded"
        => /\ headerAlwaysExpanded' => headerExpanded'
           /\ ~headerAlwaysExpanded' => headerExpanded' = headerExpanded
           /\ bPinned' = bPinned
           /\ bHeaderInTitleArea' = bHeaderInTitleArea
           /\ headerBiggerThanAllowedHeight' = headerBiggerThanAllowedHeight]_vars

\* setHeaderAlwaysExpanded(true) was called on a snapped page whose header is
\* in the title area: headerExpanded is true again
C30_Witness ==
    /\ op = "setHeaderAlwaysExpanded"
    /\ rendered
    /\ headerAlwaysExpanded
    /\ headerExpanded
    /\ titleSnapped
    /\ bHeaderInTitleArea
\* C31: with animations and a rendered footer, once setShowFooter has been
\* called (however closely the calls follow each other) and every delayed
\* footer callback has fired, the footer wrapper has the hidden class
\* exactly when showFooter is false
C31_FooterHiddenFollowsShowFooter ==
    ( /\ bUseAnimations /\ hasFooter /\ rendered
      /\ footerTimers = <<>>
      /\ footerWrapperHidden # "rendered" )
        => (footerWrapperHidden = "on" <=> ~showFooter)

\* the footer was shown and every delayed callback has fired: the wrapper
\* is not hidden
C31_Witness ==
    /\ op = "footerTimer"
    /\ bUseAnimations /\ hasFooter /\ rendered
    /\ footerTimers = <<>>
    /\ showFooter
    /\ footerWrapperHidden = "off"
\* C32: after every media update with width w exactly one of the four media
\* classes is enabled on the control, and the others are disabled: invisible
\* when w = 0, phone when 0 < w <= 600, tablet when 600 < w <= 1024, desktop
\* when w > 1024
C32_ExactlyOneMediaClass ==
    op \in {"render", "resize"}
        => /\ Cardinality(media) = 1
           /\ ownWidth = 0 => media = {"sapUiHidden"}
           /\ 0 < ownWidth /\ ownWidth <= 600 => media = {"sapFDynamicPage-Std-Phone"}
           /\ 600 < ownWidth /\ ownWidth <= 1024 => media = {"sapFDynamicPage-Std-Tablet"}
           /\ ownWidth > 1024 => media = {"sapFDynamicPage-Std-Desktop"}

\* a resize to exactly 600 pixels has left the phone class as the only one
C32_Witness ==
    /\ op = "resize"
    /\ ownWidth = 600
    /\ media = {"sapFDynamicPage-Std-Phone"}
====
